---- MODULE Spec2Model ----
(***************************************************************************)
(* The two JSON patch scripts of the configurator repository:              *)
(*   update_capabilities.py  rewrites capabilities.json and                *)
(*                           blue_label_capabilities.json;                 *)
(*   update_rules.py         rewrites rules.json.                          *)
(* Each script is a process that walks through its statements; the file    *)
(* system is the shared state.                                             *)
(*                                                                         *)
(* JSON values are written as their JSON literals: "true", "false", "1",   *)
(* and a JSON string with its quotes ("\"red\"").  A JSON object is a      *)
(* record whose DOMAIN is the set of keys it has, so a missing key is a    *)
(* missing field.  A rule_id is the sequence of the parts of the           *)
(* identifier between its underscores: fap_gold_excludes_standard is       *)
(* <<"fap", "gold", "excludes", "standard">>.                              *)
(***************************************************************************)
EXTENDS Integers, Sequences, FiniteSets, TLC

VARIABLES
    fs,         \* the file system: path -> content
    script,     \* the script the operator ran last: "none", "caps", "rules"
    pc,         \* the statement the script is at
    idx,        \* which of the script's target files is being processed
    data,       \* the local variable data of the running function
    err,        \* the exception that ended the process ("none" if none)
    stdout,     \* the lines the process has printed
    runs,       \* how many times a script has been started
    others,     \* how many times another process has written a file
    pre,        \* history: content of the target file when the call began
    loaded,     \* history: the document json.load returned
    clobbered,  \* history: content of the file when open(.., 'w') cut it
    rewritten,  \* history: the files this process has rewritten
    passes,     \* history: how many times each file has been rewritten
    last        \* history: the latest completed rewrite of a file

vars == <<fs, script, pc, idx, data, err, stdout, runs, others,
          pre, loaded, clobbered, rewritten, passes, last>>

---------------------------------------------------------------------------
(* Bounds of the model.                                                    *)

MaxCaps == 2
MaxRules == 2
MaxRuns == 2
MaxOthers == 1

---------------------------------------------------------------------------
(* Program constants.                                                      *)

CapabilitiesJson == "/home/mixy/configurator/src/logic/capabilities.json"
BlueLabelJson == "/home/mixy/configurator/src/logic/blue_label_capabilities.json"
RulesJson == "/home/mixy/configurator/src/logic/rules.json"

CapTargets == <<CapabilitiesJson, BlueLabelJson>>
RuleTargets == <<RulesJson>>
Files == {CapabilitiesJson, BlueLabelJson, RulesJson}

CapIndent == 4
RuleIndent == 2

CapsMessage == "Capabilities updated successfully with separate boolean tiers."
RulesMessage == "Rules updated successfully."

\* The option ids the capability script removes before it regenerates.
RemovedOptionIds ==
    {"fap_warranty_tier", "fap_warranty_years", "fap_standard", "fap_gold",
     "fap_platinum"}

None == [kind |-> "none"]

---------------------------------------------------------------------------
(* File contents, json.load and json.dump.                                 *)

Absent == [kind |-> "absent"]                  \* no such file
Text(t) == [kind |-> "text", text |-> t]       \* bytes that are not JSON
Torn == [kind |-> "torn"]                      \* a proper prefix of a dump
Json(indent, doc) == [kind |-> "json", indent |-> indent, doc |-> doc]

---------------------------------------------------------------------------
(* Results of a computation that may raise.                                *)

Ok(v) == [ok |-> TRUE, val |-> v]
Raise(e) == [ok |-> FALSE, exc |-> e]

\* open(filepath, 'r') and json.load(f): the document, whatever its layout.
Load(content) ==
    CASE content.kind = "absent" -> Raise("FileNotFoundError")
      [] content.kind = "json" -> Ok(content.doc)
      [] OTHER -> Raise("JSONDecodeError")

\* json.dump(data, f, indent=n) into the emptied file.
Dump(doc, indent) == Json(indent, doc)

---------------------------------------------------------------------------
(* update_capabilities: the in-memory part.                                *)

Has(obj, key) == key \in DOMAIN obj

\* Mutant: the list of line 8 as it was before the tiers became options of
\* their own.
KeepsCapabilityOldList(c) ==
    c.option_id \notin {"fap_warranty_tier", "fap_warranty_years"}

\* c['option_id'] not in [...]
KeepsCapability(c) == c.option_id \notin RemovedOptionIds

\* The list comprehension of line 8: it reads c['option_id'] of every entry.
FilterCapabilities(caps) ==
    IF \E i \in 1..Len(caps) : ~Has(caps[i], "option_id")
    THEN Raise("KeyError")
    ELSE Ok(SelectSeq(caps, KeepsCapability))

\* cap['model_id'] not in models, for the insertion-ordered dict models.
InModels(models, id) == \E j \in 1..Len(models) : models[j].model_id = id

\* Mutant: line 14 outside the if, so that a later label replaces the first.
RECURSIVE CollectModelsLastLabel(_, _, _)
CollectModelsLastLabel(caps, i, models) ==
    IF i > Len(caps) THEN Ok(models)
    ELSE IF ~Has(caps[i], "model_id") THEN Raise("KeyError")
    ELSE IF ~Has(caps[i], "model_label") THEN Raise("KeyError")
    ELSE IF InModels(models, caps[i].model_id)
         THEN CollectModelsLastLabel(caps, i + 1,
                  [j \in 1..Len(models) |->
                      IF models[j].model_id = caps[i].model_id
                      THEN [models[j] EXCEPT
                                !.model_label = caps[i].model_label]
                      ELSE models[j]])
    ELSE CollectModelsLastLabel(caps, i + 1,
             Append(models, [model_id |-> caps[i].model_id,
                             model_label |-> caps[i].model_label]))

\* The loop of lines 12-14 from entry i on.  models is the dict so far, as the
\* sequence of its items in insertion order.
RECURSIVE CollectModels(_, _, _)
CollectModels(caps, i, models) ==
    IF i > Len(caps) THEN Ok(models)
    ELSE IF ~Has(caps[i], "model_id") THEN Raise("KeyError")
    ELSE IF InModels(models, caps[i].model_id)
         THEN CollectModels(caps, i + 1, models)
    ELSE IF ~Has(caps[i], "model_label") THEN Raise("KeyError")
    ELSE CollectModels(caps, i + 1,
             Append(models, [model_id |-> caps[i].model_id,
                             model_label |-> caps[i].model_label]))

\* Mutant: the append of lines 44-50 left out.
CapsForModelNoYears(m) ==
    << [model_id |-> m.model_id, model_label |-> m.model_label,
        option_id |-> "fap_standard", raw |-> "yes, no",
        allowed_values |-> <<"true", "false">>],
       [model_id |-> m.model_id, model_label |-> m.model_label,
        option_id |-> "fap_gold", raw |-> "no, yes",
        allowed_values |-> <<"false", "true">>],
       [model_id |-> m.model_id, model_label |-> m.model_label,
        option_id |-> "fap_platinum", raw |-> "no, yes",
        allowed_values |-> <<"false", "true">>] >>

\* Mutant: fap_gold copied from fap_standard with its allowed values.
CapsForModelGoldCopied(m) ==
    << [model_id |-> m.model_id, model_label |-> m.model_label,
        option_id |-> "fap_standard", raw |-> "yes, no",
        allowed_values |-> <<"true", "false">>],
       [model_id |-> m.model_id, model_label |-> m.model_label,
        option_id |-> "fap_gold", raw |-> "yes, no",
        allowed_values |-> <<"true", "false">>],
       [model_id |-> m.model_id, model_label |-> m.model_label,
        option_id |-> "fap_platinum", raw |-> "no, yes",
        allowed_values |-> <<"false", "true">>],
       [model_id |-> m.model_id, model_label |-> m.model_label,
        option_id |-> "fap_warranty_years", raw |-> "1, 2, 3, 4, 5",
        allowed_values |-> <<"1", "2", "3", "4", "5">>] >>

\* The four records of lines 20-50 for one item of models.
CapsForModel(m) ==
    << [model_id |-> m.model_id, model_label |-> m.model_label,
        option_id |-> "fap_standard", raw |-> "yes, no",
        allowed_values |-> <<"true", "false">>],
       [model_id |-> m.model_id, model_label |-> m.model_label,
        option_id |-> "fap_gold", raw |-> "no, yes",
        allowed_values |-> <<"false", "true">>],
       [model_id |-> m.model_id, model_label |-> m.model_label,
        option_id |-> "fap_platinum", raw |-> "no, yes",
        allowed_values |-> <<"false", "true">>],
       [model_id |-> m.model_id, model_label |-> m.model_label,
        option_id |-> "fap_warranty_years", raw |-> "1, 2, 3, 4, 5",
        allowed_values |-> <<"1", "2", "3", "4", "5">>] >>

\* new_caps after the loop of lines 17-50 has run from item i on.
RECURSIVE NewCaps(_, _)
NewCaps(models, i) ==
    IF i > Len(models) THEN <<>>
    ELSE CapsForModel(models[i]) \o NewCaps(models, i + 1)

\* Lines 8-52 on the loaded document.
MutateCapabilities(doc) ==
    IF ~Has(doc, "capabilities") THEN Raise("KeyError")
    ELSE LET kept == FilterCapabilities(doc.capabilities) IN
         IF ~kept.ok THEN kept
         ELSE LET models == CollectModels(kept.val, 1, <<>>) IN
              IF ~models.ok THEN models
              ELSE Ok([doc EXCEPT !.capabilities =
                                      kept.val \o NewCaps(models.val, 1)])

---------------------------------------------------------------------------
(* add_fap_rules: the in-memory part.                                      *)

\* Mutant: the prefix in capitals.
StartsWithFapCapitals(id) == Len(id) >= 2 /\ id[1] = "FAP"

\* r['rule_id'].startswith('fap_')
StartsWithFap(id) == Len(id) >= 2 /\ id[1] = "fap"

KeepsRule(r) == ~StartsWithFap(r.rule_id)

\* The list comprehension of line 8: it reads r['rule_id'] of every entry.
FilterRules(rules) ==
    IF \E i \in 1..Len(rules) : ~Has(rules[i], "rule_id")
    THEN Raise("KeyError")
    ELSE Ok(SelectSeq(rules, KeepsRule))

FapRule(id, whenOption, effectOption) ==
    [rule_id |-> id,
     when |-> [option_id |-> whenOption, value |-> "true"],
     effect |-> [type |-> "exclude", option_id |-> effectOption,
                 value |-> "true"],
     reason |-> "Only one FAP tier allowed."]

\* Mutant: the last rule copied from the one before it, its id changed but not
\* its effect.
FapRulesCopied ==
    << FapRule(<<"fap", "gold", "excludes", "standard">>,
               "fap_gold", "fap_standard"),
       FapRule(<<"fap", "gold", "excludes", "platinum">>,
               "fap_gold", "fap_platinum"),
       FapRule(<<"fap", "platinum", "excludes", "standard">>,
               "fap_platinum", "fap_standard"),
       FapRule(<<"fap", "platinum", "excludes", "gold">>,
               "fap_platinum", "fap_gold"),
       FapRule(<<"fap", "standard", "excludes", "gold">>,
               "fap_standard", "fap_gold"),
       FapRule(<<"fap", "standard", "excludes", "platinum">>,
               "fap_standard", "fap_gold") >>

\* The literal of lines 10-47.
FapRules ==
    << FapRule(<<"fap", "gold", "excludes", "standard">>,
               "fap_gold", "fap_standard"),
       FapRule(<<"fap", "gold", "excludes", "platinum">>,
               "fap_gold", "fap_platinum"),
       FapRule(<<"fap", "platinum", "excludes", "standard">>,
               "fap_platinum", "fap_standard"),
       FapRule(<<"fap", "platinum", "excludes", "gold">>,
               "fap_platinum", "fap_gold"),
       FapRule(<<"fap", "standard", "excludes", "gold">>,
               "fap_standard", "fap_gold"),
       FapRule(<<"fap", "standard", "excludes", "platinum">>,
               "fap_standard", "fap_platinum") >>

\* Mutant: the six rules put in front of the kept ones.
MutateRulesInFront(doc) ==
    IF ~Has(doc, "rules") THEN Raise("KeyError")
    ELSE LET kept == FilterRules(doc.rules) IN
         IF ~kept.ok THEN kept
         ELSE Ok([doc EXCEPT !.rules = FapRules \o kept.val])

\* Lines 8-49 on the loaded document.
MutateRules(doc) ==
    IF ~Has(doc, "rules") THEN Raise("KeyError")
    ELSE LET kept == FilterRules(doc.rules) IN
         IF ~kept.ok THEN kept
         ELSE Ok([doc EXCEPT !.rules = kept.val \o FapRules])

---------------------------------------------------------------------------
(* The documents the files may hold before the first run.                  *)

Cap(id, label, option, raw, values) ==
    [model_id |-> id, model_label |-> label, option_id |-> option,
     raw |-> raw, allowed_values |-> values]

\* Capabilities of the catalogue, outside the warranty options.  Model m1
\* has two labels.  Model ids are JSON strings, which Python compares as
\* JSON does.
CatalogueCaps ==
    { Cap("m1", "Model One", "color", "red, blue",
          <<"\"red\"", "\"blue\"">>),
      Cap("m1", "Model 1", "size", "S, L", <<"\"S\"", "\"L\"">>),
      Cap("m2", "Model Two", "color", "red", <<"\"red\"">>) }

\* Capabilities under the warranty option ids, left by an earlier version of
\* the script or edited by hand; m3 has no other capability.
WarrantyCaps ==
    { Cap("m2", "Model Two", "fap_warranty_tier", "standard, gold",
          <<"\"standard\"", "\"gold\"">>),
      Cap("m1", "Model One", "fap_standard", "no, yes",
          <<"false", "true">>),
      Cap("m1", "Model One", "fap_gold", "yes, no", <<"true", "false">>),
      Cap("m2", "Model Two", "fap_platinum", "no, yes",
          <<"false", "true">>),
      Cap("m3", "Model Three", "fap_warranty_years", "1, 2, 3",
          <<"1", "2", "3">>) }

\* Entries that lack a key the script reads.
BrokenCaps ==
    { [model_id |-> "m2", model_label |-> "Model Two"],
      [model_id |-> "m1", option_id |-> "color"] }

CapPool == CatalogueCaps \cup WarrantyCaps \cup BrokenCaps

Rule(id, whenOption, whenValue, type, effectOption, effectValue, reason) ==
    [rule_id |-> id,
     when |-> [option_id |-> whenOption, value |-> whenValue],
     effect |-> [type |-> type, option_id |-> effectOption,
                 value |-> effectValue],
     reason |-> reason]

\* Rules outside the fap_ prefix; the second has fap inside its id.
CatalogueRules ==
    { Rule(<<"red", "excludes", "large">>, "color", "\"red\"", "exclude",
           "size", "\"L\"", "Not made."),
      Rule(<<"no", "fap", "for", "demo">>, "demo", "true", "exclude",
           "fap_gold", "true", "Demo units.") }

\* Rules under the fap_ prefix: one the script wrote with another reason, one
\* written by hand.
PrefixedRules ==
    { Rule(<<"fap", "gold", "excludes", "standard">>, "fap_gold", "true",
           "exclude", "fap_standard", "true", "One tier."),
      Rule(<<"fap", "needs", "color">>, "fap_gold", "true", "require",
           "color", "\"red\"", "By hand.") }

BrokenRules == { [reason |-> "No id."] }

RulePool == CatalogueRules \cup PrefixedRules \cup BrokenRules

SeqsUpTo(S, n) == UNION {[1..k -> S] : k \in 0..n}

Indents == {2, 4}

\* What a capabilities file may hold at the start.
CapContents ==
    {Absent, Text("not json"), Json(4, [version |-> "1"])}
    \cup {Json(i, [version |-> "1", capabilities |-> c]) :
            i \in Indents, c \in SeqsUpTo(CapPool, MaxCaps)}

\* What the rules file may hold at the start.
RuleContents ==
    {Absent, Text("not json"), Json(2, [version |-> "1"])}
    \cup {Json(i, [version |-> "1", rules |-> r]) :
            i \in Indents, r \in SeqsUpTo(RulePool, MaxRules)}

Contents(f) == IF f = RulesJson THEN RuleContents ELSE CapContents

\* The document a file holds when it is not the one under study.
Baseline(f) ==
    IF f = RulesJson
    THEN Json(2, [version |-> "1",
                  rules |-> <<Rule(<<"red", "excludes", "large">>, "color",
                                   "\"red\"", "exclude", "size", "\"L\"",
                                   "Not made.")>>])
    ELSE Json(2, [version |-> "1",
                  capabilities |->
                      <<Cap("m2", "Model Two", "color", "red",
                            <<"\"red\"">>)>>])

---------------------------------------------------------------------------
(* The processes.                                                          *)

\* No script has run.  The passes over the three files share nothing, so one
\* file at a time holds any of its contents and the other two their baseline.
Init ==
    /\ \E f \in Files : \E c \in Contents(f) :
           fs = [g \in Files |-> IF g = f THEN c ELSE Baseline(g)]
    /\ script = "none"
    /\ pc = "idle"
    /\ idx = 1
    /\ data = None
    /\ err = "none"
    /\ stdout = <<>>
    /\ runs = 0
    /\ others = 0
    /\ pre = None
    /\ loaded = None
    /\ clobbered = None
    /\ rewritten = {}
    /\ passes = [f \in Files |-> 0]
    /\ last = None

Stopped == pc \in {"idle", "done", "aborted"}

\* An uncaught exception: the traceback names it and the process ends.
Abort(e) ==
    /\ pc' = "aborted"
    /\ err' = e

\* The operator runs update_capabilities.py; line 57 makes the first call.
StartCaps ==
    /\ Stopped
    /\ runs < MaxRuns
    /\ runs' = runs + 1
    /\ script' = "caps"
    /\ pc' = "load"
    /\ idx' = 1
    /\ data' = None
    /\ err' = "none"
    /\ stdout' = <<>>
    /\ pre' = fs[CapTargets[1]]
    /\ loaded' = None
    /\ clobbered' = None
    /\ rewritten' = {}
    /\ last' = None
    /\ UNCHANGED <<fs, others, passes>>

\* Lines 4-5: open(filepath, 'r'), json.load.
CapsLoad ==
    /\ script = "caps"
    /\ pc = "load"
    /\ LET r == Load(fs[CapTargets[idx]]) IN
         IF r.ok
         THEN /\ data' = r.val
              /\ loaded' = r.val
              /\ pc' = "mutate"
              /\ err' = err
         ELSE /\ Abort(r.exc)
              /\ UNCHANGED <<data, loaded>>
    /\ UNCHANGED <<fs, script, idx, stdout, runs, others, pre, clobbered,
                   rewritten, passes, last>>

\* Mutant: the file opened for writing before the mutation, so that an error
\* of the mutation finds it emptied.
CapsMutateFileOpen ==
    /\ script = "caps"
    /\ pc = "mutate"
    /\ LET r == MutateCapabilities(data) IN
         IF r.ok
         THEN /\ data' = r.val
              /\ pc' = "open"
              /\ err' = err
              /\ fs' = fs
         ELSE /\ Abort(r.exc)
              /\ data' = data
              /\ fs' = [fs EXCEPT ![CapTargets[idx]] = Text("")]
    /\ UNCHANGED <<script, idx, stdout, runs, others, pre, loaded,
                   clobbered, rewritten, passes, last>>

\* Mutant: the mutation done on the document the file holds now, not on the
\* one loaded.
CapsMutateReread ==
    /\ script = "caps"
    /\ pc = "mutate"
    /\ LET r == IF fs[CapTargets[idx]].kind = "json"
                THEN MutateCapabilities(fs[CapTargets[idx]].doc)
                ELSE MutateCapabilities(data) IN
         IF r.ok
         THEN /\ data' = r.val
              /\ pc' = "open"
              /\ err' = err
         ELSE /\ Abort(r.exc)
              /\ data' = data
    /\ UNCHANGED <<fs, script, idx, stdout, runs, others, pre, loaded,
                   clobbered, rewritten, passes, last>>

\* Lines 8-52: the filter, the models, the new records, the extend.
CapsMutate ==
    /\ script = "caps"
    /\ pc = "mutate"
    /\ LET r == MutateCapabilities(data) IN
         IF r.ok
         THEN /\ data' = r.val
              /\ pc' = "open"
              /\ err' = err
         ELSE /\ Abort(r.exc)
              /\ data' = data
    /\ UNCHANGED <<fs, script, idx, stdout, runs, others, pre, loaded,
                   clobbered, rewritten, passes, last>>

\* Line 54: open(filepath, 'w') empties the file.
CapsOpenWrite ==
    /\ script = "caps"
    /\ pc = "open"
    /\ clobbered' = fs[CapTargets[idx]]
    /\ fs' = [fs EXCEPT ![CapTargets[idx]] = Text("")]
    /\ pc' = "dump"
    /\ UNCHANGED <<script, idx, data, err, stdout, runs, others, pre, loaded,
                   rewritten, passes, last>>

\* Mutant: the print follows the first call.
CapsDumpThenPrint ==
    /\ script = "caps"
    /\ pc = "dump"
    /\ LET f == CapTargets[idx] IN
         /\ fs' = [fs EXCEPT ![f] = Dump(data, CapIndent)]
         /\ rewritten' = rewritten \cup {f}
         /\ passes' = [passes EXCEPT ![f] = @ + 1]
         /\ last' = [file |-> f, before |-> loaded, after |-> data,
                     clobbered |-> clobbered, nth |-> passes[f] + 1]
    /\ pc' = "print"
    /\ data' = None
    /\ UNCHANGED <<script, idx, pre, err, stdout, runs, others, loaded,
                   clobbered>>

\* Line 55 and the return: the document is written; the next call of lines
\* 57-58 begins, or the print of line 59 is next.
CapsDump ==
    /\ script = "caps"
    /\ pc = "dump"
    /\ LET f == CapTargets[idx] IN
         /\ fs' = [fs EXCEPT ![f] = Dump(data, CapIndent)]
         /\ rewritten' = rewritten \cup {f}
         /\ passes' = [passes EXCEPT ![f] = @ + 1]
         /\ last' = [file |-> f, before |-> loaded, after |-> data,
                     clobbered |-> clobbered, nth |-> passes[f] + 1]
    /\ IF idx < Len(CapTargets)
       THEN /\ idx' = idx + 1
            /\ pc' = "load"
            /\ pre' = fs[CapTargets[idx + 1]]
       ELSE /\ pc' = "print"
            /\ UNCHANGED <<idx, pre>>
    /\ data' = None
    /\ UNCHANGED <<script, err, stdout, runs, others, loaded, clobbered>>

\* Line 55 when the write fails (disk full, I/O error): the file stays empty
\* or holds the part already flushed.
CapsDumpFails ==
    /\ script = "caps"
    /\ pc = "dump"
    /\ \E c \in {Text(""), Torn} :
           fs' = [fs EXCEPT ![CapTargets[idx]] = c]
    /\ Abort("OSError")
    /\ UNCHANGED <<script, idx, data, stdout, runs, others, pre, loaded,
                   clobbered, rewritten, passes, last>>

\* Line 59.
CapsPrint ==
    /\ script = "caps"
    /\ pc = "print"
    /\ stdout' = Append(stdout, CapsMessage)
    /\ pc' = "done"
    /\ UNCHANGED <<fs, script, idx, data, err, runs, others, pre, loaded,
                   clobbered, rewritten, passes, last>>

\* The operator runs update_rules.py; line 54 makes the call.
StartRules ==
    /\ Stopped
    /\ runs < MaxRuns
    /\ runs' = runs + 1
    /\ script' = "rules"
    /\ pc' = "load"
    /\ idx' = 1
    /\ data' = None
    /\ err' = "none"
    /\ stdout' = <<>>
    /\ pre' = fs[RuleTargets[1]]
    /\ loaded' = None
    /\ clobbered' = None
    /\ rewritten' = {}
    /\ last' = None
    /\ UNCHANGED <<fs, others, passes>>

\* Lines 4-5: open(filepath, 'r'), json.load.
RulesLoad ==
    /\ script = "rules"
    /\ pc = "load"
    /\ LET r == Load(fs[RuleTargets[idx]]) IN
         IF r.ok
         THEN /\ data' = r.val
              /\ loaded' = r.val
              /\ pc' = "mutate"
              /\ err' = err
         ELSE /\ Abort(r.exc)
              /\ UNCHANGED <<data, loaded>>
    /\ UNCHANGED <<fs, script, idx, stdout, runs, others, pre, clobbered,
                   rewritten, passes, last>>

\* Lines 8-49: the filter, the six rules, the extend.
RulesMutate ==
    /\ script = "rules"
    /\ pc = "mutate"
    /\ LET r == MutateRules(data) IN
         IF r.ok
         THEN /\ data' = r.val
              /\ pc' = "open"
              /\ err' = err
         ELSE /\ Abort(r.exc)
              /\ data' = data
    /\ UNCHANGED <<fs, script, idx, stdout, runs, others, pre, loaded,
                   clobbered, rewritten, passes, last>>

\* Line 51: open(filepath, 'w') empties the file.
RulesOpenWrite ==
    /\ script = "rules"
    /\ pc = "open"
    /\ clobbered' = fs[RuleTargets[idx]]
    /\ fs' = [fs EXCEPT ![RuleTargets[idx]] = Text("")]
    /\ pc' = "dump"
    /\ UNCHANGED <<script, idx, data, err, stdout, runs, others, pre, loaded,
                   rewritten, passes, last>>

\* Line 52 and the return: the document is written, the print is next.
RulesDump ==
    /\ script = "rules"
    /\ pc = "dump"
    /\ LET f == RuleTargets[idx] IN
         /\ fs' = [fs EXCEPT ![f] = Dump(data, RuleIndent)]
         /\ rewritten' = rewritten \cup {f}
         /\ passes' = [passes EXCEPT ![f] = @ + 1]
         /\ last' = [file |-> f, before |-> loaded, after |-> data,
                     clobbered |-> clobbered, nth |-> passes[f] + 1]
    /\ pc' = "print"
    /\ data' = None
    /\ UNCHANGED <<script, idx, err, stdout, runs, others, pre, loaded,
                   clobbered>>

\* Line 52 when the write fails.
RulesDumpFails ==
    /\ script = "rules"
    /\ pc = "dump"
    /\ \E c \in {Text(""), Torn} :
           fs' = [fs EXCEPT ![RuleTargets[idx]] = c]
    /\ Abort("OSError")
    /\ UNCHANGED <<script, idx, data, stdout, runs, others, pre, loaded,
                   clobbered, rewritten, passes, last>>

\* Line 55.
RulesPrint ==
    /\ script = "rules"
    /\ pc = "print"
    /\ stdout' = Append(stdout, RulesMessage)
    /\ pc' = "done"
    /\ UNCHANGED <<fs, script, idx, data, err, runs, others, pre, loaded,
                   clobbered, rewritten, passes, last>>

CapsStep ==
    \/ StartCaps
    \/ CapsLoad
    \/ CapsMutate
    \/ CapsOpenWrite
    \/ CapsDump
    \/ CapsDumpFails
    \/ CapsPrint

RulesStep ==
    \/ StartRules
    \/ RulesLoad
    \/ RulesMutate
    \/ RulesOpenWrite
    \/ RulesDump
    \/ RulesDumpFails
    \/ RulesPrint

Next == CapsStep \/ RulesStep

Spec == Init /\ [][Next]_vars

---------------------------------------------------------------------------
(* Another process that edits the same files.  Neither script takes a    *)
(* lock, so it may run between any two statements of a script.  It reads  *)
(* a file, adds one entry outside the warranty names and writes the file  *)
(* back, in one step.                                                     *)

OtherCap == Cap("m1", "Model One", "engraving", "yes, no",
                <<"true", "false">>)

OtherRule == Rule(<<"engraving", "needs", "gold">>, "engraving", "true",
                  "require", "fap_gold", "true", "Gold only.")

OtherProcessWrites ==
    /\ others < MaxOthers
    /\ others' = others + 1
    /\ \E f \in Files :
         /\ fs[f].kind = "json"
         /\ IF f = RulesJson
            THEN /\ Has(fs[f].doc, "rules")
                 /\ fs' = [fs EXCEPT ![f].doc.rules = Append(@, OtherRule)]
            ELSE /\ Has(fs[f].doc, "capabilities")
                 /\ fs' = [fs EXCEPT
                              ![f].doc.capabilities = Append(@, OtherCap)]
    /\ UNCHANGED <<script, pc, idx, data, err, stdout, runs, pre, loaded,
                   clobbered, rewritten, passes, last>>

NextShared == Next \/ OtherProcessWrites

\* A document with entries of an earlier run among the catalogue's.
Patched(f) ==
    IF f = RulesJson
    THEN Json(2, MutateRules(Baseline(f).doc).val)
    ELSE Json(4, MutateCapabilities(Baseline(f).doc).val)

\* No script has run; each file holds its baseline or the patched baseline.
InitShared ==
    /\ \E S \in SUBSET Files :
           fs = [f \in Files |-> IF f \in S THEN Patched(f) ELSE Baseline(f)]
    /\ script = "none"
    /\ pc = "idle"
    /\ idx = 1
    /\ data = None
    /\ err = "none"
    /\ stdout = <<>>
    /\ runs = 0
    /\ others = 0
    /\ pre = None
    /\ loaded = None
    /\ clobbered = None
    /\ rewritten = {}
    /\ passes = [f \in Files |-> 0]
    /\ last = None

SpecShared == InitShared /\ [][NextShared]_vars

---------------------------------------------------------------------------
(* Vocabulary of the properties.                                           *)

\* A pass of update_capabilities over a file has completed; last holds the
\* document it loaded (before) and the document it wrote (after).
CapsPass == last # None /\ last.file \in {CapabilitiesJson, BlueLabelJson}

\* A pass of add_fap_rules over the rules file has completed.
RulesPass == last # None /\ last.file = RulesJson

WarrantyIds ==
    {"fap_warranty_tier", "fap_warranty_years", "fap_standard", "fap_gold",
     "fap_platinum"}

NewOptionIds == {"fap_standard", "fap_gold", "fap_platinum",
                 "fap_warranty_years"}

UnrelatedCap(c) == c.option_id \notin WarrantyIds

HasFapPrefix(id) == Len(id) > 1 /\ Head(id) = "fap"

UnrelatedRule(r) == ~HasFapPrefix(r.rule_id)

\* The indices of the entries of caps with model m and option o.
Matching(caps, m, o) ==
    {i \in 1..Len(caps) : caps[i].model_id = m /\ caps[i].option_id = o}

ModelIds(caps) == {caps[i].model_id : i \in 1..Len(caps)}

\* The first entry of caps with model m.
FirstOf(caps, m) ==
    caps[CHOOSE i \in 1..Len(caps) :
             /\ caps[i].model_id = m
             /\ \A j \in 1..(i - 1) : caps[j].model_id # m]

FirstIndexOf(caps, m) ==
    CHOOSE i \in 1..Len(caps) :
        /\ caps[i].model_id = m
        /\ \A j \in 1..(i - 1) : caps[j].model_id # m

\* The file the running call is processing.
Target == IF script = "rules" THEN RuleTargets[idx] ELSE CapTargets[idx]

---------------------------------------------------------------------------
(* C1 as stated: every model_id of any record of the array before the run  *)
(* has, after the run, exactly one record for each of fap_standard,        *)
(* fap_gold, fap_platinum and fap_warranty_years.  It fails for a model    *)
(* whose only records are warranty records: line 8 removes them before     *)
(* lines 12-14 collect the models.                                         *)
C1_EveryModelBefore ==
    CapsPass =>
        \A m \in ModelIds(last.before.capabilities) : \A o \in NewOptionIds :
            Cardinality(Matching(last.after.capabilities, m, o)) = 1

(* C1 amended: every model_id of a record that survives the filter of      *)
(* line 8 has exactly four warranty records after the run, one per option  *)
(* id; a model_id found only in removed records has none.                  *)
C1_EveryKeptModel ==
    CapsPass =>
        LET kept == SelectSeq(last.before.capabilities, UnrelatedCap)
            out == last.after.capabilities
        IN /\ \A m \in ModelIds(kept) : \A o \in NewOptionIds :
                  Cardinality(Matching(out, m, o)) = 1
           /\ \A m \in ModelIds(last.before.capabilities) \ ModelIds(kept) :
                  \A i \in 1..Len(out) : out[i].model_id # m
           /\ \A i \in 1..Len(out) :
                  out[i].option_id \in WarrantyIds =>
                      out[i].option_id \in NewOptionIds

\* A pass over an array with two models in kept records and stale warranty
\* records gone.
C1_Witness ==
    /\ CapsPass
    /\ Cardinality(ModelIds(SelectSeq(last.before.capabilities,
                                      UnrelatedCap))) = 2
    /\ Len(last.after.capabilities) = 10

(* C2: a second or later pass of update_capabilities over a file writes    *)
(* back the capabilities array it read (same records, same order), and     *)
(* the whole document with it.                                             *)
C2_CapsIdempotent ==
    (CapsPass /\ last.nth >= 2) =>
        /\ last.after.capabilities = last.before.capabilities
        /\ last.after = last.before
        /\ fs[last.file] = last.clobbered

\* A second pass over an array of six records: two of the catalogue and the
\* four of the first pass.
C2_Witness ==
    /\ CapsPass
    /\ last.nth = 2
    /\ Len(last.after.capabilities) >= 6

(* C3: a second or later pass of add_fap_rules over the rules file writes  *)
(* back the rules array it read.                                           *)
C3_RulesIdempotent ==
    (RulesPass /\ last.nth >= 2) =>
        /\ last.after.rules = last.before.rules
        /\ fs[last.file] = last.clobbered

\* A second pass over an array with a rule of the catalogue and the six.
C3_Witness ==
    /\ RulesPass
    /\ last.nth = 2
    /\ Len(last.after.rules) >= 7

Tiers == {"standard", "gold", "platinum"}

TierOption(t) ==
    CASE t = "standard" -> "fap_standard"
      [] t = "gold" -> "fap_gold"
      [] t = "platinum" -> "fap_platinum"

(* C4: after a pass of add_fap_rules exactly six rules have a rule_id that *)
(* starts with fap_, and for every ordered pair (A, B) of distinct tiers   *)
(* exactly one of them has when = {fap_A, true} and                        *)
(* effect = {exclude, fap_B, true}.                                        *)
C4_SixExclusions ==
    RulesPass =>
        LET rs == last.after.rules
            fap == {i \in 1..Len(rs) : HasFapPrefix(rs[i].rule_id)}
        IN /\ Cardinality(fap) = 6
           /\ \A a \in Tiers : \A b \in Tiers \ {a} :
                  Cardinality(
                      {i \in fap :
                           /\ rs[i].when = [option_id |-> TierOption(a),
                                            value |-> "true"]
                           /\ rs[i].effect = [type |-> "exclude",
                                              option_id |-> TierOption(b),
                                              value |-> "true"]}) = 1

\* A pass over an array that held a rule under the prefix and one outside it.
C4_Witness ==
    /\ RulesPass
    /\ \E i \in 1..Len(last.before.rules) :
           HasFapPrefix(last.before.rules[i].rule_id)
    /\ \E i \in 1..Len(last.before.rules) :
           ~HasFapPrefix(last.before.rules[i].rule_id)

(* C5: after a pass of either script the entries outside its names (a      *)
(* capability whose option_id is none of the five warranty ids, a rule     *)
(* whose rule_id does not start with fap_) are the first entries of the    *)
(* array, unchanged and in their order, and every entry after them is one  *)
(* of the script's own.                                                    *)
C5_UnrelatedKept ==
    /\ CapsPass =>
           LET kept == SelectSeq(last.before.capabilities, UnrelatedCap)
               out == last.after.capabilities
           IN /\ Len(out) >= Len(kept)
              /\ SubSeq(out, 1, Len(kept)) = kept
              /\ \A i \in (Len(kept) + 1)..Len(out) : ~UnrelatedCap(out[i])
    /\ RulesPass =>
           LET kept == SelectSeq(last.before.rules, UnrelatedRule)
               out == last.after.rules
           IN /\ Len(out) >= Len(kept)
              /\ SubSeq(out, 1, Len(kept)) = kept
              /\ \A i \in (Len(kept) + 1)..Len(out) : ~UnrelatedRule(out[i])
    /\ last # None =>
           /\ fs[last.file].kind = "json" => fs[last.file].doc = last.after
           /\ last.after.version = last.before.version

\* A pass over an array whose first entry is a warranty record and whose
\* second is not.
C5_Witness ==
    /\ CapsPass
    /\ Len(last.before.capabilities) >= 2
    /\ ~UnrelatedCap(last.before.capabilities[1])
    /\ UnrelatedCap(last.before.capabilities[2])

(* C6 as stated: a process that aborted left its target file as it was     *)
(* when the call began.  It fails when the write of line 55 (52) fails:    *)
(* open(.., 'w') has emptied the file by then.                             *)
C6_AbortLeavesFile == pc = "aborted" => fs[Target] = pre

(* C6 amended: the file is as it was when the call began until it is       *)
(* opened for writing, which happens only after the load and the whole     *)
(* mutation have succeeded; so an abort on a missing file, invalid JSON or *)
(* a missing key leaves the file as it was.  Only an error of the write    *)
(* itself leaves it empty or torn.                                         *)
C6_AbortBeforeWrite ==
    /\ pc \in {"load", "mutate", "open"} => fs[Target] = pre
    /\ (pc = "aborted" /\ err # "OSError") => fs[Target] = pre
    /\ pc = "dump" =>
           /\ loaded # None
           /\ data = (IF script = "rules" THEN MutateRules(loaded)
                      ELSE MutateCapabilities(loaded)).val
    /\ (pc = "aborted" /\ fs[Target] # pre) =>
           /\ err = "OSError"
           /\ fs[Target] \in {Text(""), Torn}

\* An abort on a missing key, after a well-formed load.
C6_Witness ==
    /\ pc = "aborted"
    /\ err = "KeyError"
    /\ loaded # None
    /\ fs[Target] = pre

(* C7: every warranty record of the array a pass of update_capabilities    *)
(* has written has the allowed_values of its option_id: fap_standard       *)
(* [true, false], fap_gold [false, true], fap_platinum [false, true],      *)
(* fap_warranty_years [1, 2, 3, 4, 5].                                     *)
C7_AllowedValues ==
    CapsPass =>
        \A i \in 1..Len(last.after.capabilities) :
            LET c == last.after.capabilities[i] IN
            /\ c.option_id = "fap_standard" =>
                   c.allowed_values = <<"true", "false">>
            /\ c.option_id = "fap_gold" =>
                   c.allowed_values = <<"false", "true">>
            /\ c.option_id = "fap_platinum" =>
                   c.allowed_values = <<"false", "true">>
            /\ c.option_id = "fap_warranty_years" =>
                   c.allowed_values = <<"1", "2", "3", "4", "5">>

\* A pass over an array that held fap_gold with other allowed values.
C7_Witness ==
    /\ CapsPass
    /\ \E i \in 1..Len(last.before.capabilities) :
           /\ last.before.capabilities[i].option_id = "fap_gold"
           /\ last.before.capabilities[i].allowed_values
                  # <<"false", "true">>
    /\ \E i \in 1..Len(last.after.capabilities) :
           last.after.capabilities[i].option_id = "fap_gold"

(* C8: update_capabilities.py rewrites capabilities.json before it turns   *)
(* to blue_label_capabilities.json, prints its line once and only after    *)
(* both files are rewritten, and prints nothing when it aborts.            *)
C8_PrintAfterBoth ==
    script = "caps" =>
        /\ idx = 2 => CapabilitiesJson \in rewritten
        /\ BlueLabelJson \in rewritten => CapabilitiesJson \in rewritten
        /\ pc \in {"print", "done"} =>
               rewritten = {CapabilitiesJson, BlueLabelJson}
        /\ stdout # <<>> =>
               /\ stdout = <<CapsMessage>>
               /\ pc = "done"
        /\ pc = "done" => stdout = <<CapsMessage>>
        /\ pc = "aborted" => stdout = <<>>

\* The line is printed, both files rewritten.
C8_Witness ==
    /\ script = "caps"
    /\ stdout = <<CapsMessage>>
    /\ rewritten = {CapabilitiesJson, BlueLabelJson}

(* C9: a completed pass has written the document computed from what it     *)
(* loaded, whatever the file held when it was opened for writing: when     *)
(* another process wrote the file in between, the entry that process       *)
(* added is not in the array the pass wrote.                               *)
C9_StaleWriteWins ==
    last # None =>
        /\ last.after = (IF last.file = RulesJson
                         THEN MutateRules(last.before)
                         ELSE MutateCapabilities(last.before)).val
        /\ last.clobbered.doc # last.before =>
               IF last.file = RulesJson
               THEN Len(SelectSeq(last.after.rules, UnrelatedRule))
                        < Len(SelectSeq(last.clobbered.doc.rules,
                                        UnrelatedRule))
               ELSE Len(SelectSeq(last.after.capabilities, UnrelatedCap))
                        < Len(SelectSeq(last.clobbered.doc.capabilities,
                                        UnrelatedCap))

\* The other process wrote between the load and the write of a pass, and the
\* file no longer holds its entry.
C9_Witness ==
    /\ CapsPass
    /\ last.clobbered.doc # last.before
    /\ \E i \in 1..Len(last.clobbered.doc.capabilities) :
           last.clobbered.doc.capabilities[i] = OtherCap
    /\ fs[last.file].kind = "json"
    /\ \A i \in 1..Len(fs[last.file].doc.capabilities) :
           fs[last.file].doc.capabilities[i] # OtherCap

(* C10: the four records a pass appends for a model carry the model_label  *)
(* of the first kept entry with that model_id, and the models come in the  *)
(* order of their first kept entries.                                      *)
C10_FirstSeenLabel ==
    CapsPass =>
        LET kept == SelectSeq(last.before.capabilities, UnrelatedCap)
            out == last.after.capabilities
            new == (Len(kept) + 1)..Len(out)
        IN /\ \A i \in new :
                  out[i].model_label
                      = FirstOf(kept, out[i].model_id).model_label
           /\ \A i \in new : \A j \in new :
                  i <= j => FirstIndexOf(kept, out[i].model_id)
                                <= FirstIndexOf(kept, out[j].model_id)

\* A pass over an array whose two kept entries give one model two labels.
C10_Witness ==
    /\ CapsPass
    /\ Len(last.before.capabilities) = 2
    /\ UnrelatedCap(last.before.capabilities[1])
    /\ UnrelatedCap(last.before.capabilities[2])
    /\ last.before.capabilities[1].model_id
           = last.before.capabilities[2].model_id
    /\ Has(last.before.capabilities[2], "model_label")
    /\ last.before.capabilities[1].model_label
           # last.before.capabilities[2].model_label

====
